---- MODULE Spec2Model ----
(***************************************************************************)
(* The document-translation job pipeline of mvp-backend: the job table     *)
(* (models.Job), the upload handler that creates jobs (main.upload_file),  *)
(* and the worker (worker.py): claim_next_job, requeue_stale_processing,   *)
(* process_job_async, run_worker_async and the text helpers they call.     *)
(*                                                                         *)
(* Text is a sequence of one-character strings.  None and "" are both the  *)
(* empty sequence: the code only ever tests them for truthiness.           *)
(***************************************************************************)
EXTENDS Integers, Sequences, FiniteSets, TLC

----------------------------------------------------------------------------
(* Bounds of the model *)

NumWorkers == 2      \* worker processes sharing the job table
MaxJobs == 2         \* uploads
ClusterJobs == 1     \* uploads where several workers run
MaxTicks == 1        \* clock steps
MaxRequests == 2     \* requests of main.py served at the same time
MaxPayments == 2     \* rows of payments
MaxLen == 6          \* length of an input text of a text helper
MaxChars == 4        \* the max_chars argument of a text helper
MaxLines == 3        \* lines of a page text given to translate_text_async
LimitedPages == 1    \* the max_pages of the user that has a page limit

(* Configuration read from the environment, scaled down to the model's texts *)

MAX_CHARS_PER_CHUNK == 6
CONTEXT_CHARS == 4
HEAD_CHARS == 3
MAX_CONCURRENT_JOBS == 2

(* Program constants *)

LLM_MAX_RETRIES == 3
STALE_PROCESSING_MINUTES == 60
CHECKPOINT_EVERY_PAGES == 1
MIN_CHUNK_CHARS == 5

Workers == 1..NumWorkers
\* job ids: enough for MaxJobs uploads and for one job more than a worker runs
\* at a time
JobIds == 1..(IF MaxJobs > MAX_CONCURRENT_JOBS THEN MaxJobs ELSE MAX_CONCURRENT_JOBS + 1)
NoWorker == 0
NoJob == 0
NoUser == 0

\* the users that upload: one without a page limit, one with max_pages set,
\* one on the TRIAL plan without max_pages
Unlimited == 1
Limited == 2
Trial == 3
Users == {Unlimited, Limited, Trial}

\* the page limit of a TRIAL user without max_pages
TRIAL_DEFAULT_PAGES == 5
\* None / no object: the empty tuple, so that it compares with keys and blobs
NULL == <<>>

(* The clock moves in steps of just over the stale threshold: a job in       *)
(* 'processing' is stale one step after its creation.                        *)
TickMinutes == STALE_PROCESSING_MINUTES + 1

Min(a, b) == IF a < b THEN a ELSE b

----------------------------------------------------------------------------
(* Text helpers *)

NL == "\n"
CR == "\r"
SP == " "
Whitespace == {SP, NL, CR}

\* str.strip()
RECURSIVE lstrip(_)
lstrip(s) ==
    IF s = <<>> THEN <<>>
    ELSE IF Head(s) \in Whitespace THEN lstrip(Tail(s)) ELSE s

RECURSIVE rstrip(_)
rstrip(s) ==
    IF s = <<>> THEN <<>>
    ELSE IF s[Len(s)] \in Whitespace THEN rstrip(SubSeq(s, 1, Len(s) - 1)) ELSE s

strip(s) == rstrip(lstrip(s))

\* str.find(c): 0-based index of the first c, -1 when there is none
find(s, c) ==
    IF \E i \in 1..Len(s) : s[i] = c
    THEN (CHOOSE i \in 1..Len(s) : s[i] = c /\ \A k \in 1..(i - 1) : s[k] # c) - 1
    ELSE -1

\* str.rfind(c): 0-based index of the last c, -1 when there is none
rfind(s, c) ==
    IF \E i \in 1..Len(s) : s[i] = c
    THEN (CHOOSE i \in 1..Len(s) : s[i] = c /\ \A k \in (i + 1)..Len(s) : s[k] # c) - 1
    ELSE -1

\* str.splitlines(keepends=True): a line ends with "\n", "\r\n" or "\r", and
\* keeps its end
RECURSIVE splitlines(_)
splitlines(text) ==
    IF text = <<>> THEN <<>>
    ELSE LET ends == {i \in 1..Len(text) : text[i] \in {NL, CR}}
             i == CHOOSE e \in ends : \A o \in ends : e <= o
             k == IF text[i] = CR /\ i < Len(text) /\ text[i + 1] = NL THEN i + 1 ELSE i
         IN  IF ends = {} THEN <<text>>
             ELSE <<SubSeq(text, 1, k)>> \o splitlines(SubSeq(text, k + 1, Len(text)))

\* "".join(parts)
RECURSIVE join(_)
join(parts) == IF parts = <<>> THEN <<>> ELSE Head(parts) \o join(Tail(parts))

\* the loop of chunk_text_preserving_lines over lines[i..], with chunks and buf
RECURSIVE chunk_loop(_, _, _, _, _)
chunk_loop(lines, i, chunks, buf, max_chars) ==
    IF i > Len(lines)
    THEN IF buf # <<>> THEN Append(chunks, buf) ELSE chunks
    ELSE LET line == lines[i]
             flush == Len(buf) + Len(line) > max_chars /\ buf # <<>>
         IN  chunk_loop(lines, i + 1,
                        IF flush THEN Append(chunks, buf) ELSE chunks,
                        (IF flush THEN <<>> ELSE buf) \o line,
                        max_chars)

chunk_text_stripped(text, max_chars) ==
    chunk_loop(splitlines(rstrip(text)), 1, <<>>, <<>>, max_chars)

chunk_text_whole(text, max_chars) == IF text = <<>> THEN <<>> ELSE <<text>>

chunk_text_preserving_lines(text, max_chars) ==
    chunk_loop(splitlines(text), 1, <<>>, <<>>, max_chars)

get_page_tail(text, max_chars) ==
    IF text = <<>> \/ Len(text) <= max_chars THEN text
    ELSE LET tail == SubSeq(text, Len(text) - max_chars + 1, Len(text))
             space_idx == find(tail, SP)
         IN  strip(IF space_idx > 0 /\ space_idx < Len(tail) \div 2
                   THEN SubSeq(tail, space_idx + 2, Len(tail))
                   ELSE tail)

get_page_head(text, max_chars) ==
    IF text = <<>> \/ Len(text) <= max_chars THEN text
    ELSE LET head == SubSeq(text, 1, max_chars)
             space_idx == rfind(head, SP)
         IN  strip(IF space_idx > Len(head) \div 2
                   THEN SubSeq(head, 1, space_idx)
                   ELSE head)

----------------------------------------------------------------------------
(* The translation provider and translate_chunk_async / translate_text_async *)

\* what one POST to the provider ends in
Outcomes == {"ok", "transport", "http_error", "malformed"}

\* the outcomes of the successive attempts for one chunk
Scripts == [1..LLM_MAX_RETRIES -> Outcomes]

\* choices[0].message.content of a successful response for this chunk
LLMContent(chunk) == <<"<">> \o chunk \o <<">">>

\* the user message: the bare chunk, or the delimited parts when a context or
\* a lookahead is given
user_message(chunk, context, lookahead) ==
    IF context # <<>> \/ lookahead # <<>>
    THEN (IF context # <<>> THEN <<[part |-> "CONTEXT FROM PREVIOUS PAGE", text |-> context]>>
                            ELSE <<>>)
         \o <<[part |-> "CURRENT PAGE TEXT", text |-> chunk]>>
         \o (IF lookahead # <<>> THEN <<[part |-> "NEXT PAGE PREVIEW", text |-> lookahead]>>
                                 ELSE <<>>)
    ELSE <<[part |-> "PLAIN", text |-> chunk]>>

\* the delimiter lines the request puts around its parts, each one token
Markers == {"CONTEXT FROM PREVIOUS PAGE", "END PREVIOUS CONTEXT",
            "CURRENT PAGE TEXT", "END OF TEXT TO TRANSLATE",
            "NEXT PAGE PREVIEW", "END NEXT PAGE PREVIEW", "..."}

\* the string sent as the user message: "\n".join(parts), or the bare chunk
RECURSIVE message_text(_)
message_text(request) ==
    IF request = <<>> THEN <<>>
    ELSE LET p == Head(request)
             body == IF p.part = "PLAIN" THEN p.text
                     ELSE IF p.part = "CONTEXT FROM PREVIOUS PAGE"
                     THEN <<p.part, NL, "...">> \o p.text \o <<NL, "END PREVIOUS CONTEXT">>
                     ELSE IF p.part = "CURRENT PAGE TEXT"
                     THEN <<NL, p.part, NL>> \o p.text \o <<NL, "END OF TEXT TO TRANSLATE">>
                     ELSE <<NL, p.part, NL>> \o p.text \o <<"...", NL, "END NEXT PAGE PREVIEW">>
         IN  body \o (IF Len(request) > 1 THEN <<NL>> ELSE <<>>) \o message_text(Tail(request))

\* except Exception: a failed attempt the loop absorbs
caught_transport_only(outcome) == outcome = "transport"

caught(outcome) == outcome \in {"transport", "http_error", "malformed"}

\* asyncio.sleep(1.5 * attempt), in tenths of a second
backoff(attempt) == 15 * attempt

\* the retry loop from `attempt` on; calls and delays are what happened so far
RECURSIVE retry_loop(_, _, _, _, _)
retry_loop(chunk, script, attempt, calls, delays) ==
    IF attempt > LLM_MAX_RETRIES
    THEN [out |-> chunk, calls |-> calls, delays |-> delays, raised |-> FALSE]
    ELSE IF script[attempt] = "ok"
    THEN [out |-> LLMContent(chunk), calls |-> calls + 1, delays |-> delays,
          raised |-> FALSE]
    ELSE IF ~caught(script[attempt])
    THEN [out |-> <<>>, calls |-> calls + 1, delays |-> delays, raised |-> TRUE]
    ELSE retry_loop(chunk, script, attempt + 1, calls + 1,
                    IF attempt < LLM_MAX_RETRIES
                    THEN Append(delays, backoff(attempt)) ELSE delays)

translate_chunk_unguarded(chunk, context, lookahead, script) ==
    [request |-> user_message(chunk, context, lookahead)]
    @@ retry_loop(chunk, script, 1, 0, <<>>)

translate_chunk_returns_message(chunk, context, lookahead, script) ==
    IF chunk = <<>> \/ Len(strip(chunk)) < MIN_CHUNK_CHARS
    THEN [out |-> <<>>, calls |-> 0, delays |-> <<>>, raised |-> FALSE,
          request |-> <<>>]
    ELSE LET r == retry_loop(chunk, script, 1, 0, <<>>)
             request == user_message(chunk, context, lookahead)
         IN  [request |-> request]
             @@ [r EXCEPT !.out = IF \E a \in 1..LLM_MAX_RETRIES : script[a] = "ok"
                                  THEN @ ELSE message_text(request)]

translate_chunk_async(chunk, context, lookahead, script) ==
    IF chunk = <<>> \/ Len(strip(chunk)) < MIN_CHUNK_CHARS
    THEN [out |-> <<>>, calls |-> 0, delays |-> <<>>, raised |-> FALSE,
          request |-> <<>>]
    ELSE [request |-> user_message(chunk, context, lookahead)]
         @@ retry_loop(chunk, script, 1, 0, <<>>)

translate_text_same_hints(text, context, lookahead, scripts) ==
    LET chunks == chunk_text_preserving_lines(text, MAX_CHARS_PER_CHUNK)
        res == [idx \in 1..Len(chunks) |->
                   translate_chunk_async(chunks[idx], context, lookahead, scripts[idx])]
    IN  [out |-> join([idx \in 1..Len(chunks) |-> res[idx].out]),
         chunks |-> res,
         raised |-> \E idx \in 1..Len(chunks) : res[idx].raised]

\* scripts[idx] is the provider's behaviour for chunk idx
translate_text_async(text, context, lookahead, scripts) ==
    LET chunks == chunk_text_preserving_lines(text, MAX_CHARS_PER_CHUNK)
        n == Len(chunks)
        res == [idx \in 1..n |->
                   translate_chunk_async(chunks[idx],
                       IF n = 1 \/ idx = 1 THEN context ELSE <<>>,
                       IF n = 1 \/ idx = n THEN lookahead ELSE <<>>,
                       scripts[idx])]
    IN  [out |-> join([idx \in 1..n |-> res[idx].out]),
         chunks |-> res,
         raised |-> \E idx \in 1..n : res[idx].raised]

----------------------------------------------------------------------------
(* Documents: the uploaded PDFs, each a sequence of page texts *)

PageOne == <<"a", "a", "a", "a", "a", NL>>
PageLong == <<"a", "a", "a", "a", "a", NL, "b", "b", SP, "b", "b", "b", NL>>
PageShort == <<"a", "b", NL>>
PageBlank == <<SP, NL>>

Docs == {<<>>, <<PageOne>>, <<PageLong, PageBlank>>, <<PageShort, PageOne, PageLong>>}

PageMixed == <<"a", "a", "a", "a", "a", NL, "a", "b", NL>>

\* the documents uploaded where several workers run
ClusterDocs == {<<PageOne>>, <<PageLong, PageOne>>}

\* the largest number of chunks a page of Docs splits into
MaxChunks ==
    LET counts == {1} \cup UNION {
                      {Len(chunk_text_preserving_lines(d[i], MAX_CHARS_PER_CHUNK)) :
                           i \in 1..Len(d)} : d \in Docs}
    IN  CHOOSE n \in counts : \A m \in counts : m <= n

----------------------------------------------------------------------------
(* State *)

VARIABLES
    now,            \* datetime.utcnow(), in minutes
    status,         \* Job.status by job id; "absent" before the row is inserted
    word_count,     \* Job.word_count: the progress counter / checkpoint
    r2_key_output,  \* Job.r2_key_output
    created_at,     \* Job.created_at
    doc,            \* the input blob stored under Job.r2_key_input
    user_id,        \* Job.user_id
    filename,       \* Job.filename
    row_lock,       \* the worker holding the row's FOR UPDATE lock, or NoWorker
    r2_object,      \* <<blob>> for the blob stored under the job's output key, or NULL
    sched_pc,       \* where each worker's run_worker_async loop stands
    stale_jobs,     \* requeue_stale_processing: the rows read and not yet handled
    claim_job,      \* claim_next_job: the row read and not yet committed
    claim_path,     \* claim_next_job: the query that read it
    task,           \* active_tasks: per worker and job id, the process_job_async task
    holders,        \* per job in 'processing', who claim_next_job returned it to
    crash_ckpt,     \* per job, the highest checkpoint persisted when a worker driving it crashed
    fn_pc, fn_in, fn_out,  \* one call of a text helper: its arguments and result
    r2_key_input,   \* Job.r2_key_input
    r2_input,       \* the keys under which an input blob is stored
    http,           \* the response of the last request served by main.py
    used_count,     \* InviteCode.used_count, per invite code
    users,          \* per device id, the invite code that created its User row, or ""
    activated,      \* the <<user, invite code>> pairs answered "Activated"
    session,        \* per request of main.py in flight, what its session has read
    payment_status, \* Payment.status, "absent" before the row exists
    completed_at,   \* Payment.completed_at
    invite_rows,    \* per payment, the InviteCode rows with the payment's invite code
    delivery,       \* per webhook delivery in flight, what its session has read
    env             \* per worker process, its environment variables

db_vars == <<status, word_count, r2_key_output, created_at, doc, user_id, filename,
             row_lock, r2_object>>
sched_vars == <<env, sched_pc, stale_jobs, claim_job, claim_path>>
fn_vars == <<fn_pc, fn_in, fn_out>>
invite_vars == <<used_count, users, activated, session>>
payment_vars == <<payment_status, completed_at, invite_rows, delivery>>
account_vars == <<invite_vars, payment_vars>>
api_vars == <<r2_key_input, r2_input, http, account_vars>>
vars == <<now, db_vars, sched_vars, task, holders, crash_ckpt, fn_vars, api_vars>>

NoTask == [pc |-> "none", last_page_done |-> 0, total_pages |-> 0, page_no |-> 0,
           out |-> <<>>, prev_page_tail |-> <<>>, resumed_after |-> 0, last_sent |-> 0,
           local_input |-> FALSE, local_output |-> FALSE, unread |-> {},
           last_extracted |-> 0, sent_context |-> <<>>, sent_lookahead |-> <<>>]

active_tasks_none(w) == {}

\* the keys of active_tasks
active_tasks(w) == {j \in JobIds : task[w][j].pc # "none"}

\* a task that has not finished: its worker is driving the job
driving(w, j) == task[w][j].pc \notin {"none", "done"}

\* f"outputs/{job.user_id}/translated_{job.id}_{job.filename}.txt"
output_key(j) == <<"outputs", "/", user_id[j], "/", "translated", "_", j, "_", filename[j], ".txt">>

\* what an endpoint answers: the status code and the body
\* request holds the parameters that matter, fetched the key the handler
\* requested from the object store, or NULL, stream the content of a
\* StreamingResponse, or NULL
answer(endpoint, request, code, body, fetched, stream) ==
    [endpoint |-> endpoint, request |-> request, code |-> code, body |-> body,
     fetched |-> fetched, stream |-> stream]
response(endpoint, code, body) == answer(endpoint, <<>>, code, body, NULL, NULL)
NoResponse == response("none", 0, <<>>)

\* the variables env_sanity looks at; set holds those with a non-empty value
EnvNames == {"R2_BUCKET", "R2_ENDPOINT", "R2_ACCESS_KEY", "R2_SECRET_KEY",
             "DEEPSEEK_API_KEY", "ROUTELLM_API_KEY"}
Environments == [set : SUBSET EnvNames, LLM_PROVIDER : {"deepseek", "routellm"}]
FullEnv == [set |-> EnvNames, LLM_PROVIDER |-> "deepseek"]

Requests == 1..MaxRequests
InviteCodes == {"A", "B"}          \* the rows of app_invite_codes
Devices == {"d1", "d2"}            \* device ids; User.email is device_{id}@local
max_uses == 1                      \* InviteCode.max_uses
NoSession == [pc |-> "idle", code |-> "", who |-> "", read |-> 0]
Payments == 1..MaxPayments
NoDelivery == [pc |-> "idle", payment |-> 0, insert |-> FALSE]

InitRecords ==
    /\ now = 0
    /\ status = [j \in JobIds |-> "absent"]
    /\ word_count = [j \in JobIds |-> 0]
    /\ r2_key_output = [j \in JobIds |-> NULL]
    /\ created_at = [j \in JobIds |-> 0]
    /\ doc = [j \in JobIds |-> <<>>]
    /\ user_id = [j \in JobIds |-> NoUser]
    /\ filename = [j \in JobIds |-> ""]
    /\ row_lock = [j \in JobIds |-> NoWorker]
    /\ r2_object = [j \in JobIds |-> NULL]
    /\ stale_jobs = [w \in Workers |-> <<>>]
    /\ claim_job = [w \in Workers |-> NoJob]
    /\ claim_path = [w \in Workers |-> "none"]
    /\ task = [w \in Workers |-> [j \in JobIds |-> NoTask]]
    /\ holders = [j \in JobIds |-> {}]
    /\ crash_ckpt = [j \in JobIds |-> 0]
    /\ r2_key_input = [j \in JobIds |-> NULL]
    /\ r2_input = {}
    /\ http = NoResponse
    /\ used_count = [c \in InviteCodes |-> 0]
    /\ users = [d \in Devices |-> ""]
    /\ activated = {}
    /\ session = [r \in Requests |-> NoSession]
    /\ payment_status = [p \in Payments |-> "absent"]
    /\ completed_at = [p \in Payments |-> NULL]
    /\ invite_rows = [p \in Payments |-> 0]
    /\ delivery = [r \in Requests |-> NoDelivery]

\* every worker has passed env_sanity and is in its loop
InitSystem ==
    /\ InitRecords
    /\ env = [w \in Workers |-> FullEnv]
    /\ sched_pc = [w \in Workers |-> "sleep"]

Init ==
    /\ InitSystem
    /\ fn_pc = "idle"
    /\ fn_in = <<>>
    /\ fn_out = <<>>

----------------------------------------------------------------------------
(* main.upload_file and the clock *)

input_key_flat(u, t, name) == <<"inputs", "/", t, "_", name>>

\* f"inputs/{user_id}/{int(time.time())}_{file.filename}"
input_key(u, t, name) == <<"inputs", "/", u, "/", t, "_", name>>

\* the upload of a known user whose blob is stored: the job row is inserted
\* with the column defaults (status given as "queued", word_count 0,
\* r2_key_output null)
upload_file(d, u, name, max_jobs) ==
    /\ \E j \in 1..max_jobs :
        /\ status[j] = "absent"
        /\ \A k \in 1..(j - 1) : status[k] # "absent"
        /\ r2_input' = r2_input \cup {input_key(u, now, name)}
        /\ status' = [status EXCEPT ![j] = "queued"]
        /\ word_count' = [word_count EXCEPT ![j] = 0]
        /\ r2_key_output' = [r2_key_output EXCEPT ![j] = NULL]
        /\ r2_key_input' = [r2_key_input EXCEPT ![j] = input_key(u, now, name)]
        /\ doc' = [doc EXCEPT ![j] = d]
        /\ user_id' = [user_id EXCEPT ![j] = u]
        /\ filename' = [filename EXCEPT ![j] = name]
        /\ created_at' = [created_at EXCEPT ![j] = now]
        /\ http' = response("upload", 200, <<j, "queued">>)
    /\ UNCHANGED <<now, row_lock, r2_object, sched_vars,
                   task, holders, crash_ckpt, fn_vars, account_vars>>

\* s3.put_object raises: 500, and the handler ends before the row is added
upload_file_put_fails(u) ==
    /\ u \in Users
    /\ http' = response("upload", 500, <<"Upload failed">>)
    /\ UNCHANGED <<now, db_vars, sched_vars, task, holders, crash_ckpt, fn_vars,
                   r2_key_input, r2_input, account_vars>>

\* the token names no user: 404 before anything is stored
upload_file_no_user(u) ==
    /\ u \notin Users
    /\ http' = response("upload", 404, <<"User not found">>)
    /\ UNCHANGED <<now, db_vars, sched_vars, task, holders, crash_ckpt, fn_vars,
                   r2_key_input, r2_input, account_vars>>

clock_tick ==
    /\ now < MaxTicks * TickMinutes
    /\ now' = now + TickMinutes
    /\ UNCHANGED <<db_vars, sched_vars, task, holders, crash_ckpt, fn_vars, api_vars>>

----------------------------------------------------------------------------
(* requeue_stale_processing and claim_next_job, as run_worker_async calls them. *)
(* A tick of run_worker_async runs without awaiting, so it is atomic for the    *)
(* worker's own tasks; its queries and commits interleave with other workers'.  *)

\* the sequence of the jobs of S by created_at ascending (ties by id)
RECURSIVE by_created_at(_)
by_created_at(S) ==
    IF S = {} THEN <<>>
    ELSE LET first == CHOOSE j \in S : \A k \in S :
                          \/ created_at[j] < created_at[k]
                          \/ created_at[j] = created_at[k] /\ j <= k
         IN  <<first>> \o by_created_at(S \ {first})

\* ts_field: models.Job has no updated_at column, so hasattr(Job, "updated_at")
\* is false and the sweep takes Job.created_at
ts_field(j) == created_at[j]

stale_query_none == <<>>

\* the rows the stale query returns
stale_query ==
    LET cutoff == now - STALE_PROCESSING_MINUTES
    IN  by_created_at({j \in JobIds : status[j] = "processing" /\ ts_field(j) < cutoff})

\* while len(active_tasks) < MAX_CONCURRENT_JOBS: claim, else sleep
loop_pc_unbounded(active) == "claim"

loop_pc_serial(active) == IF active = {} THEN "claim" ELSE "sleep"

\* while len(active_tasks) < MAX_CONCURRENT_JOBS: claim, else sleep
loop_pc(active) == IF Cardinality(active) < MAX_CONCURRENT_JOBS THEN "claim" ELSE "sleep"

\* the worker loop is in one of its two asyncio.sleep calls: the one that ends
\* a tick, or the one of the loop's except branch
sleeping(w) == sched_pc[w] \in {"sleep", "error_sleep"}

finished_none(w) == {}

\* [jid for jid, task in active_tasks.items() if task.done()]
finished(w) == {j \in JobIds : task[w][j].pc = "done"}

\* the start of a tick: finished tasks are popped, the stale query is run
run_worker_tick(w) ==
    /\ sleeping(w)
    /\ LET kept == [j \in JobIds |-> IF j \in finished(w) THEN NoTask ELSE task[w][j]]
           active == {j \in JobIds : kept[j].pc # "none"}
       IN  /\ task' = [task EXCEPT ![w] = kept]
           /\ stale_jobs' = [stale_jobs EXCEPT ![w] = stale_query]
           /\ sched_pc' = [sched_pc EXCEPT ![w] =
                              IF stale_query # <<>> THEN "sweep" ELSE loop_pc(active)]
    /\ UNCHANGED <<now, env, db_vars, claim_job, claim_path, holders, crash_ckpt, fn_vars, api_vars>>

\* one pass of the loop over stale_jobs: skip an active job, requeue any other
requeue_stale_processing(w) ==
    /\ sched_pc[w] = "sweep"
    /\ stale_jobs[w] # <<>>
    /\ LET stale == Head(stale_jobs[w])
           rest == Tail(stale_jobs[w])
       IN  /\ IF stale \in active_tasks(w)
              THEN UNCHANGED <<status, holders>>
              ELSE /\ row_lock[stale] \in {NoWorker, w}
                   /\ status' = [status EXCEPT ![stale] = "queued"]
                   /\ holders' = [holders EXCEPT ![stale] =
                                     IF status[stale] = "queued" THEN @ ELSE {}]
           /\ stale_jobs' = [stale_jobs EXCEPT ![w] = rest]
           /\ sched_pc' = [sched_pc EXCEPT ![w] =
                              IF rest # <<>> THEN "sweep" ELSE loop_pc(active_tasks(w))]
    /\ UNCHANGED <<now, env, word_count, r2_key_output, created_at, doc, user_id, filename, row_lock, r2_object,
                   claim_job, claim_path, task, crash_ckpt, fn_vars, api_vars>>

\* an exception inside requeue_stale_processing: its own except branch logs
\* it and the function returns; what was committed before stays
sweep_fails(w) ==
    /\ sched_pc[w] = "sweep"
    /\ stale_jobs' = [stale_jobs EXCEPT ![w] = <<>>]
    /\ sched_pc' = [sched_pc EXCEPT ![w] = loop_pc(active_tasks(w))]
    /\ UNCHANGED <<now, env, db_vars, claim_job, claim_path, task, holders, crash_ckpt, fn_vars, api_vars>>

loop_error_exits == "stopped"

\* where the except branch of the worker loop leaves the loop: in
\* asyncio.sleep(POLL_SECONDS), after which the while loop goes on
loop_error_pc == "error_sleep"

\* claim_next_job raises in its query or its commit: the loop's except branch
\* logs it, and db.close() in the finally ends the transaction
tick_fails(w) ==
    /\ sched_pc[w] \in {"claim", "claim_commit"}
    /\ sched_pc' = [sched_pc EXCEPT ![w] = loop_error_pc]
    /\ claim_job' = [claim_job EXCEPT ![w] = NoJob]
    /\ claim_path' = [claim_path EXCEPT ![w] = "none"]
    /\ row_lock' = [j \in JobIds |-> IF row_lock[j] = w THEN NoWorker ELSE row_lock[j]]
    /\ UNCHANGED <<now, env, status, word_count, r2_key_output, created_at, doc, user_id,
                   filename, r2_object, stale_jobs, task, holders, crash_ckpt, fn_vars, api_vars>>

oldest_any(S) == S

\* the queued rows with the smallest created_at among S
oldest(S) == {j \in S : \A k \in S : created_at[j] <= created_at[k]}

\* q.with_for_update(skip_locked=True).first()
claim_select_skip_locked(w) ==
    /\ sched_pc[w] = "claim"
    /\ LET free == {j \in JobIds : status[j] = "queued" /\ row_lock[j] = NoWorker}
       IN  IF free = {}
           THEN /\ sched_pc' = [sched_pc EXCEPT ![w] = "sleep"]
                /\ UNCHANGED <<row_lock, claim_job, claim_path>>
           ELSE \E j \in oldest(free) :
                /\ row_lock' = [row_lock EXCEPT ![j] = w]
                /\ claim_job' = [claim_job EXCEPT ![w] = j]
                /\ claim_path' = [claim_path EXCEPT ![w] = "skip_locked"]
                /\ sched_pc' = [sched_pc EXCEPT ![w] = "claim_commit"]
    /\ UNCHANGED <<now, env, status, word_count, r2_key_output, created_at, doc, user_id, filename, r2_object,
                   stale_jobs, task, holders, crash_ckpt, fn_vars, api_vars>>

\* the locking query raised: q.first(), a plain read
claim_select_fallback(w) ==
    /\ sched_pc[w] = "claim"
    /\ LET queued == {j \in JobIds : status[j] = "queued"}
       IN  IF queued = {}
           THEN /\ sched_pc' = [sched_pc EXCEPT ![w] = "sleep"]
                /\ UNCHANGED <<claim_job, claim_path>>
           ELSE \E j \in oldest(queued) :
                /\ claim_job' = [claim_job EXCEPT ![w] = j]
                /\ claim_path' = [claim_path EXCEPT ![w] = "fallback"]
                /\ sched_pc' = [sched_pc EXCEPT ![w] = "claim_commit"]
    /\ UNCHANGED <<now, env, db_vars, stale_jobs, task, holders, crash_ckpt, fn_vars, api_vars>>

\* a task freshly created by asyncio.create_task
new_task == [NoTask EXCEPT !.pc = "start"]

cleanup_skipped(t) == t

\* the finally block: each temp file that exists is removed
cleanup(t) == [t EXCEPT !.local_input = FALSE, !.local_output = FALSE]

\* a task that has returned: task.done(), and its locals are gone; what is left
\* of the run is whether its two temp files still exist
done_task(t) == [NoTask EXCEPT !.pc = "done",
                               !.local_input = cleanup(t).local_input,
                               !.local_output = cleanup(t).local_output]

claimed_task_replaced(w, j) == new_task

\* if job.id in active_tasks: continue -- else asyncio.create_task(...)
claimed_task(w, j) == IF j \in active_tasks(w) THEN task[w][j] ELSE new_task

\* job.status = "processing"; db.commit(); return job -- and the caller's use of
\* the job: skipped when already in active_tasks, else a task is created
claim_commit(w) ==
    /\ sched_pc[w] = "claim_commit"
    /\ LET j == claim_job[w]
           started == claimed_task(w, j)
       IN  /\ row_lock[j] \in {NoWorker, w}
           /\ status' = [status EXCEPT ![j] = "processing"]
           /\ row_lock' = [row_lock EXCEPT ![j] = NoWorker]
           /\ holders' = [holders EXCEPT ![j] = @ \cup {<<w, claim_path[w]>>}]
           /\ task' = [task EXCEPT ![w][j] = started]
           /\ sched_pc' = [sched_pc EXCEPT ![w] = loop_pc(active_tasks(w) \cup {j})]
    /\ claim_job' = [claim_job EXCEPT ![w] = NoJob]
    /\ claim_path' = [claim_path EXCEPT ![w] = "none"]
    /\ UNCHANGED <<now, env, word_count, r2_key_output, created_at, doc, user_id, filename, r2_object,
                   stale_jobs, crash_ckpt, fn_vars, api_vars>>

----------------------------------------------------------------------------
(* process_job_async, one action per stretch between two awaits.  A task runs  *)
(* on its worker's event loop, so it moves only while run_worker_async sleeps. *)

\* the provider's behaviour for the chunks of one page
PageScripts == [1..MaxChunks -> Scripts]
ProviderFails == {sc \in PageScripts : \A c \in 1..MaxChunks, a \in 1..LLM_MAX_RETRIES :
                                           sc[c][a] # "ok"}
\* the provider answers every first attempt
ProviderUp == {[c \in 1..MaxChunks |-> [a \in 1..LLM_MAX_RETRIES |-> "ok"]]}

runs(w, j, pc) == sleeping(w) /\ task[w][j].pc = pc

\* job = db.query(Job)...first(); last_page_done = int(job.word_count or 0)
process_job_start(w, j) ==
    /\ runs(w, j, "start")
    /\ task' = [task EXCEPT ![w][j] = [@ EXCEPT !.pc = "download",
                                                !.last_page_done = word_count[j],
                                                !.page_no = word_count[j],
                                                !.resumed_after = crash_ckpt[j]]]
    /\ UNCHANGED <<now, db_vars, sched_vars, holders, crash_ckpt, fn_vars, api_vars>>

\* the except branch: job.status = "failed"; db.commit(), then the finally
\* block; t is the run as the exception found it
mark_failed(w, j, t) ==
    /\ row_lock[j] = NoWorker
    /\ status' = [status EXCEPT ![j] = "failed"]
    /\ holders' = [holders EXCEPT ![j] = {}]
    /\ task' = [task EXCEPT ![w][j] = done_task(t)]
    /\ UNCHANGED <<now, word_count, r2_key_output, created_at, doc, user_id, filename, row_lock, r2_object,
                   sched_vars, crash_ckpt, fn_vars, api_vars>>

\* User.max_pages and User.plan of the users that upload
max_pages(u) == IF u = Limited THEN <<LimitedPages>> ELSE NULL
plan(u) == IF u = Trial THEN "TRIAL" ELSE "PAID"

\* the user's max_pages limit, <<n>> or NULL: a TRIAL user without one gets 5
user_max_pages(u) ==
    IF max_pages(u) # NULL THEN max_pages(u)
    ELSE IF plan(u) = "TRIAL" THEN <<TRIAL_DEFAULT_PAGES>> ELSE NULL

unlimited_pages(pages, u) == pages

limited_pages_plus_lookahead(pages, u) ==
    IF user_max_pages(u) # NULL /\ pages > user_max_pages(u)[1]
    THEN user_max_pages(u)[1] + 1 ELSE pages

\* total_pages once the limit is applied
limited_pages(pages, u) ==
    IF user_max_pages(u) # NULL /\ pages > user_max_pages(u)[1]
    THEN user_max_pages(u)[1] ELSE pages

\* s3.download_file, count_pages, the user's limit, and open(local_output, mode)
process_job_download(w, j) ==
    /\ runs(w, j, "download")
    /\ LET total_pages == limited_pages(Len(doc[j]), user_id[j])
       IN  task' = [task EXCEPT ![w][j] =
                       [@ EXCEPT !.total_pages = total_pages,
                                 !.local_input = TRUE,
                                 !.local_output = TRUE,
                                 !.pc = IF task[w][j].last_page_done < total_pages
                                        THEN "page" ELSE "upload"]]
    /\ UNCHANGED <<now, db_vars, sched_vars, holders, crash_ckpt, fn_vars, api_vars>>

\* the download raises and leaves no file, or pdfplumber.open raises on the
\* downloaded file
process_job_download_fails(w, j) ==
    /\ runs(w, j, "download")
    /\ \E downloaded \in BOOLEAN :
          mark_failed(w, j, [task[w][j] EXCEPT !.local_input = downloaded])

after_page_skips_checkpoint(page_no, total_pages) ==
    IF page_no < total_pages THEN "page" ELSE "upload"

\* where the page loop goes once a page is written
after_page(page_no, total_pages) ==
    IF page_no % CHECKPOINT_EVERY_PAGES = 0 THEN "checkpoint"
    ELSE IF page_no < total_pages THEN "page" ELSE "upload"

extract_text_unguarded(d, page_no, ok) == d[page_no]

tail_kept(prev) == prev

\* prev_page_tail = "" after an empty page
tail_after_empty(prev) == <<>>

\* page.extract_text() or "", and "" when it raises
extract_text(d, page_no, ok) == IF ok THEN d[page_no] ELSE <<>>

\* what the page loop writes for page page_no and what it remembers; unread
\* collects the pages whose extraction raised (the run's warnings)
page_result(t, d, extract_ok, next_ok, scripts) ==
    LET page_no == t.page_no + 1
        text == extract_text(d, page_no, extract_ok)
        next_text == IF page_no < t.total_pages
                     THEN extract_text(d, page_no + 1, next_ok) ELSE <<>>
        lookahead == IF strip(next_text) # <<>>
                     THEN get_page_head(next_text, HEAD_CHARS) ELSE <<>>
        tr == translate_text_async(text, t.prev_page_tail, lookahead, scripts)
    IN  IF strip(text) = <<>>
        THEN [t EXCEPT !.page_no = page_no,
                       !.unread = IF extract_ok THEN @ ELSE @ \cup {page_no},
                       !.last_extracted = IF page_no < t.total_pages THEN page_no + 1
                                                                     ELSE page_no,
                       !.out = Append(@, [page |-> page_no, text |-> <<NL>>]),
                       !.prev_page_tail = tail_after_empty(@),
                       !.pc = after_page(page_no, t.total_pages)]
        ELSE [t EXCEPT !.page_no = page_no,
                       !.unread = IF extract_ok THEN @ ELSE @ \cup {page_no},
                       !.last_extracted = IF page_no < t.total_pages THEN page_no + 1
                                                                     ELSE page_no,
                       !.out = Append(@, [page |-> page_no,
                                          text |-> tr.out \o <<NL, NL>>]),
                       !.prev_page_tail = get_page_tail(text, CONTEXT_CHARS),
                       !.sent_context = t.prev_page_tail,
                       !.sent_lookahead = lookahead,
                       !.last_sent = page_no,
                       !.pc = IF tr.raised THEN "raised"
                              ELSE after_page(page_no, t.total_pages)]

\* one page: extract_text, translate_text_async, out.write; whatever the
\* translation raises lands in the except branch
process_job_page(w, j, provider, extraction) ==
    /\ runs(w, j, "page")
    /\ \E extract_ok \in extraction, next_ok \in extraction, scripts \in provider :
          LET t == page_result(task[w][j], doc[j], extract_ok, next_ok, scripts)
          IN  IF t.pc = "raised"
              THEN mark_failed(w, j, t)
              ELSE /\ task' = [task EXCEPT ![w][j] = t]
                   /\ UNCHANGED <<now, db_vars, sched_vars, holders, crash_ckpt, fn_vars, api_vars>>

\* save_checkpoint: job.word_count = page_no; db.commit()
process_job_checkpoint(w, j) ==
    /\ runs(w, j, "checkpoint")
    /\ row_lock[j] = NoWorker
    /\ word_count' = [word_count EXCEPT ![j] = task[w][j].page_no]
    /\ task' = [task EXCEPT ![w][j] =
                   [@ EXCEPT !.pc = IF task[w][j].page_no < task[w][j].total_pages
                                    THEN "page" ELSE "upload"]]
    /\ UNCHANGED <<now, status, r2_key_output, created_at, doc, user_id, filename, row_lock, r2_object,
                   sched_vars, holders, crash_ckpt, fn_vars, api_vars>>

\* s3.upload_file(local_output, R2_BUCKET, r2_key_output)
process_job_upload(w, j) ==
    /\ runs(w, j, "upload")
    /\ r2_object' = [r2_object EXCEPT ![j] = <<task[w][j].out>>]
    /\ task' = [task EXCEPT ![w][j] = [@ EXCEPT !.pc = "finalize"]]
    /\ UNCHANGED <<now, status, word_count, r2_key_output, created_at, doc, user_id, filename, row_lock,
                   sched_vars, holders, crash_ckpt, fn_vars, api_vars>>

process_job_upload_fails(w, j) ==
    /\ runs(w, j, "upload")
    /\ mark_failed(w, j, task[w][j])

\* job.status = "completed"; job.r2_key_output = ...; job.word_count = total_pages
process_job_finalize(w, j) ==
    /\ runs(w, j, "finalize")
    /\ row_lock[j] = NoWorker
    /\ status' = [status EXCEPT ![j] = "completed"]
    /\ r2_key_output' = [r2_key_output EXCEPT ![j] = output_key(j)]
    /\ word_count' = [word_count EXCEPT ![j] = task[w][j].total_pages]
    /\ holders' = [holders EXCEPT ![j] = {}]
    /\ task' = [task EXCEPT ![w][j] = done_task(task[w][j])]
    /\ UNCHANGED <<now, created_at, doc, user_id, filename, row_lock, r2_object, sched_vars,
                   crash_ckpt, fn_vars, api_vars>>

\* the worker process dies and is started again: its tasks, its open
\* transaction and its row locks are gone, the job rows stay as they are
crash(w) ==
    /\ \E j \in JobIds : task[w][j].pc # "none"
    /\ task' = [task EXCEPT ![w] = [j \in JobIds |-> NoTask]]
    /\ sched_pc' = [sched_pc EXCEPT ![w] = "sleep"]
    /\ stale_jobs' = [stale_jobs EXCEPT ![w] = <<>>]
    /\ claim_job' = [claim_job EXCEPT ![w] = NoJob]
    /\ claim_path' = [claim_path EXCEPT ![w] = "none"]
    /\ row_lock' = [j \in JobIds |-> IF row_lock[j] = w THEN NoWorker ELSE row_lock[j]]
    /\ crash_ckpt' = [j \in JobIds |->
                          IF driving(w, j) /\ word_count[j] > crash_ckpt[j]
                          THEN word_count[j] ELSE crash_ckpt[j]]
    /\ UNCHANGED <<now, env, status, word_count, r2_key_output, created_at, doc, user_id, filename, r2_object,
                   holders, fn_vars, api_vars>>

----------------------------------------------------------------------------
(* The system: uploads, the clock, and NumWorkers worker processes *)

Scheduler(w) ==
    \/ run_worker_tick(w)
    \/ requeue_stale_processing(w)
    \/ claim_select_skip_locked(w)
    \/ claim_commit(w)

Job(w, j, provider, extraction) ==
    \/ process_job_start(w, j)
    \/ process_job_download(w, j)
    \/ process_job_download_fails(w, j)
    \/ process_job_page(w, j, provider, extraction)
    \/ process_job_checkpoint(w, j)
    \/ process_job_upload(w, j)
    \/ process_job_upload_fails(w, j)
    \/ process_job_finalize(w, j)

\* the storage engine supports FOR UPDATE SKIP LOCKED: the locking query never raises
NextSkipLocked ==
    \/ \E d \in ClusterDocs : upload_file(d, Unlimited, "f.pdf", ClusterJobs)
    \/ clock_tick
    \/ \E w \in Workers : Scheduler(w)
    \/ \E w \in Workers, j \in JobIds : Job(w, j, ProviderUp, {TRUE})
    \/ \E w \in Workers : crash(w)

SpecSkipLocked == Init /\ [][NextSkipLocked]_vars

\* the locking query may raise, and then the plain query runs
Next ==
    \/ NextSkipLocked
    \/ \E w \in Workers : claim_select_fallback(w)

Spec == Init /\ [][Next]_vars

\* one worker process, MaxJobs uploads
NextWorker ==
    \/ \E d \in Docs : upload_file(d, Unlimited, "f.pdf", MaxJobs)
    \/ clock_tick
    \/ Scheduler(1)
    \/ claim_select_fallback(1)
    \/ \E j \in JobIds : Job(1, j, ProviderUp, {TRUE})
    \/ crash(1)

SpecWorker == Init /\ [][NextWorker]_vars

\* one worker, one upload, a provider that fails every attempt of every chunk;
\* the download, the document and the upload are sound and nothing crashes
NextFailSoft ==
    \/ \E d \in Docs \cup {<<PageMixed>>} : upload_file(d, Unlimited, "f.pdf", 1)
    \/ clock_tick
    \/ Scheduler(1)
    \/ \E j \in JobIds :
          \/ process_job_start(1, j)
          \/ process_job_download(1, j)
          \/ process_job_page(1, j, ProviderFails, {TRUE})
          \/ process_job_checkpoint(1, j)
          \/ process_job_upload(1, j)
          \/ process_job_finalize(1, j)

SpecFailSoft == Init /\ [][NextFailSoft]_vars

\* one worker and one upload by any of the users; extraction, the download, the
\* document and the upload may each fail, the provider answers, nothing crashes
Filenames == {"a.pdf", "b.pdf"}

NextRun ==
    \/ \E d \in Docs, u \in Users, name \in Filenames : upload_file(d, u, name, 1)
    \/ clock_tick
    \/ Scheduler(1)
    \/ \E j \in JobIds : Job(1, j, ProviderUp, BOOLEAN)

SpecRun == Init /\ [][NextRun]_vars

\* one worker and one upload more than it runs at a time, of one-page
\* documents; the download and the upload may fail, nothing crashes
NextCapacity ==
    \/ upload_file(<<PageOne>>, Unlimited, "f.pdf", MAX_CONCURRENT_JOBS + 1)
    \/ clock_tick
    \/ Scheduler(1)
    \/ \E j \in JobIds : Job(1, j, ProviderUp, {TRUE})

SpecCapacity == Init /\ [][NextCapacity]_vars

\* one worker whose database calls may raise in the sweep and in the claim
NextFaulty ==
    \/ NextCapacity
    \/ sweep_fails(1)
    \/ tick_fails(1)

\* the loop runs, and a database call that is made again and again does not
\* fail every time
FairFaulty ==
    /\ WF_vars(run_worker_tick(1))
    /\ SF_vars(requeue_stale_processing(1))
    /\ SF_vars(claim_select_skip_locked(1))
    /\ SF_vars(claim_commit(1))

SpecFaulty == Init /\ [][NextFaulty]_vars /\ FairFaulty

job_of_any_user(j, u) == IF status[j] # "absent" THEN <<j>> ELSE NULL

\* db.query(Job).filter(Job.id == job_id, Job.user_id == user_id).first()
job_of(j, u) == IF status[j] # "absent" /\ user_id[j] = u THEN <<j>> ELSE NULL

\* GET /api/jobs/{job_id}/download with a token of user u; the presigning or
\* the fetch from the object store may fail
download_job(j, u, outcome) ==
    /\ http' =
          IF job_of(j, u) = NULL
          THEN answer("download", <<j, u>>, 404, <<"Job not found">>, NULL, NULL)
          ELSE IF r2_key_output[j] = NULL
          THEN answer("download", <<j, u>>, 404, <<"File not ready">>, NULL, NULL)
          ELSE IF outcome = "presign_fails"
          THEN answer("download", <<j, u>>, 500, <<"Failed to generate download URL">>, NULL, NULL)
          ELSE IF outcome = "get_fails" \/ r2_object[j] = NULL
          THEN answer("download", <<j, u>>, 500, <<"Download failed">>, r2_key_output[j], NULL)
          ELSE answer("download", <<j, u>>, 200, <<>>, r2_key_output[j], r2_object[j])
    /\ UNCHANGED <<now, db_vars, sched_vars, task, holders, crash_ckpt, fn_vars,
                   r2_key_input, r2_input, account_vars>>

\* POST /api/auth/invite-login up to the point where the session has read
\* the invite and found no user of the device; an empty device id becomes a
\* fresh anon_ id, that is a device without a user
invite_login(r, code, device) ==
    /\ session[r].pc = "idle"
    /\ IF code \notin InviteCodes
       THEN /\ http' = answer("invite-login", <<code, device>>, 401,
                              <<"Invalid invite code">>, NULL, NULL)
            /\ UNCHANGED session
       ELSE IF users[device] # ""
       THEN /\ http' = answer("invite-login", <<code, device>>, 200, <<device>>, NULL, NULL)
            /\ UNCHANGED session
       ELSE IF used_count[code] >= max_uses
       THEN /\ http' = answer("invite-login", <<code, device>>, 401,
                              <<"Invite code exhausted">>, NULL, NULL)
            /\ UNCHANGED session
       ELSE /\ session' = [session EXCEPT ![r] =
                              [pc |-> "invite_login", code |-> code, who |-> device,
                               read |-> used_count[code]]]
            /\ UNCHANGED http
    /\ UNCHANGED <<now, db_vars, sched_vars, task, holders, crash_ckpt, fn_vars,
                   r2_key_input, r2_input, used_count, users, activated, payment_vars>>

\* invite.used_count = invite.used_count + 1 on the row the session loaded
increment(c, read) == read + 1

\* db.add(user); invite.used_count = invite.used_count + 1; db.commit():
\* User.email is unique, so the INSERT of a second user of the device fails
\* and the request ends in an error with nothing written
invite_login_commit(r) ==
    LET q == session[r] IN
    /\ q.pc = "invite_login"
    /\ session' = [session EXCEPT ![r] = NoSession]
    /\ IF users[q.who] # ""
       THEN /\ http' = answer("invite-login", <<q.code, q.who>>, 500,
                              <<"Internal Server Error">>, NULL, NULL)
            /\ UNCHANGED <<used_count, users>>
       ELSE /\ users' = [users EXCEPT ![q.who] = q.code]
            /\ used_count' = [used_count EXCEPT ![q.code] = increment(q.code, q.read)]
            /\ http' = answer("invite-login", <<q.code, q.who>>, 200, <<q.who>>, NULL, NULL)
    /\ UNCHANGED <<now, db_vars, sched_vars, task, holders, crash_ckpt, fn_vars,
                   r2_key_input, r2_input, activated, payment_vars>>

\* POST /api/invite/activate with the token of the user of a device, up to
\* the point where the session has read an invite with uses left; User has
\* no tier column, so no request is answered "Already activated"
activate_invite(r, code, device) ==
    /\ session[r].pc = "idle"
    /\ IF users[device] = ""
       THEN /\ http' = answer("activate", <<code, device>>, 404, <<"User not found">>,
                              NULL, NULL)
            /\ UNCHANGED session
       ELSE IF code \notin InviteCodes \/ ~(used_count[code] < max_uses)
       THEN /\ http' = answer("activate", <<code, device>>, 404,
                              <<"Invalid or exhausted invite code">>, NULL, NULL)
            /\ UNCHANGED session
       ELSE /\ session' = [session EXCEPT ![r] =
                              [pc |-> "activate_invite", code |-> code, who |-> device,
                               read |-> used_count[code]]]
            /\ UNCHANGED http
    /\ UNCHANGED <<now, db_vars, sched_vars, task, holders, crash_ckpt, fn_vars,
                   r2_key_input, r2_input, used_count, users, activated, payment_vars>>

\* invite.used_count += 1; db.commit(); return {"message": "Activated", ...}
activate_invite_commit(r) ==
    LET q == session[r] IN
    /\ q.pc = "activate_invite"
    /\ session' = [session EXCEPT ![r] = NoSession]
    /\ used_count' = [used_count EXCEPT ![q.code] = increment(q.code, q.read)]
    /\ activated' = activated \cup {<<q.who, q.code>>}
    /\ http' = answer("activate", <<q.code, q.who>>, 200, <<"Activated">>, NULL, NULL)
    /\ UNCHANGED <<now, db_vars, sched_vars, task, holders, crash_ckpt, fn_vars,
                   r2_key_input, r2_input, users, payment_vars>>

\* the requests of the invite endpoints, served by the threads of the server
NextInvite ==
    \E r \in Requests :
        \/ \E code \in InviteCodes \cup {"NONE"}, device \in Devices :
              invite_login(r, code, device)
        \/ invite_login_commit(r)
        \/ \E code \in InviteCodes \cup {"NONE"}, device \in Devices :
              activate_invite(r, code, device)
        \/ activate_invite_commit(r)

SpecInvite == Init /\ [][NextInvite]_vars

\* Payment.payment_method and Payment.invite_code of payment p
payment_method(p) == IF p % 2 = 1 THEN "stripe" ELSE "cryptobot"
invite_code(p) == <<"code", p>>

\* create_stripe_checkout / create_cryptobot_invoice: the Payment row
create_payment(p) ==
    /\ payment_status[p] = "absent"
    /\ payment_status' = [payment_status EXCEPT ![p] = "pending"]
    /\ http' = answer("create-payment", <<p>>, 200, <<payment_method(p)>>, NULL, NULL)
    /\ UNCHANGED <<now, db_vars, sched_vars, task, holders, crash_ckpt, fn_vars,
                   r2_key_input, r2_input, invite_vars, completed_at, invite_rows,
                   delivery>>

\* what the webhook of a payment method answers for a payment already completed
already_processed(p) ==
    IF payment_method(p) = "stripe" THEN <<"ok", "Already processed">> ELSE <<"ok">>

\* what it answers when no payment matches the event
payment_not_found(p) ==
    IF payment_method(p) = "stripe" THEN <<"error", "Payment not found">> ELSE <<"error">>

\* stripe_webhook / cryptobot_webhook up to the test of payment.status: an
\* event that is not a paid one changes nothing
webhook_payment(r, p, paid) ==
    /\ delivery[r].pc = "idle"
    /\ IF ~paid
       THEN /\ http' = answer("webhook", <<p>>, 200, <<"ok">>, NULL, NULL)
            /\ UNCHANGED delivery
       ELSE IF payment_status[p] = "absent"
       THEN /\ http' = answer("webhook", <<p>>, 200, payment_not_found(p), NULL, NULL)
            /\ UNCHANGED delivery
       ELSE IF payment_status[p] = "completed"
       THEN /\ http' = answer("webhook", <<p>>, 200, already_processed(p), NULL, NULL)
            /\ UNCHANGED delivery
       ELSE /\ delivery' = [delivery EXCEPT ![r] =
                               [pc |-> "existing_code", payment |-> p, insert |-> FALSE]]
            /\ UNCHANGED http
    /\ UNCHANGED <<now, db_vars, sched_vars, task, holders, crash_ckpt, fn_vars,
                   r2_key_input, r2_input, invite_vars, payment_status, completed_at,
                   invite_rows>>

\* existing_code = db.query(InviteCode).filter(code == payment.invite_code).first();
\* if not existing_code: db.add(InviteCode(...))
webhook_existing_code(r) ==
    LET q == delivery[r] IN
    /\ q.pc = "existing_code"
    /\ delivery' = [delivery EXCEPT ![r] =
                       [q EXCEPT !.pc = "commit", !.insert = (invite_rows[q.payment] = 0)]]
    /\ UNCHANGED <<now, db_vars, sched_vars, task, holders, crash_ckpt, fn_vars,
                   r2_key_input, r2_input, http, invite_vars, payment_status,
                   completed_at, invite_rows>>

unique_not_enforced(p, insert) == FALSE

\* InviteCode.code is unique: a second row of the code is refused
unique_violation(p, insert) == insert /\ invite_rows[p] > 0

\* payment.status = "completed"; payment.completed_at = utcnow(); db.commit():
\* a refused INSERT ends the request in an error with nothing written
webhook_commit(r) ==
    LET q == delivery[r]
        p == q.payment
    IN  /\ q.pc = "commit"
        /\ delivery' = [delivery EXCEPT ![r] = NoDelivery]
        /\ IF unique_violation(p, q.insert)
           THEN /\ http' = answer("webhook", <<p>>, 500, <<"Internal Server Error">>,
                                  NULL, NULL)
                /\ UNCHANGED <<payment_status, completed_at, invite_rows>>
           ELSE /\ payment_status' = [payment_status EXCEPT ![p] = "completed"]
                /\ completed_at' = [completed_at EXCEPT ![p] = <<now>>]
                /\ invite_rows' = [invite_rows EXCEPT ![p] = @ + (IF q.insert THEN 1 ELSE 0)]
                /\ http' = answer("webhook", <<p>>, 200, <<"ok">>, NULL, NULL)
        /\ UNCHANGED <<now, db_vars, sched_vars, task, holders, crash_ckpt, fn_vars,
                       r2_key_input, r2_input, invite_vars>>

\* "invite_code": payment.invite_code if payment.status == "completed" else None
disclosed_code(p) == IF payment_status[p] = "completed" THEN invite_code(p) ELSE NULL

\* get_stripe_session / get_cryptobot_invoice
get_payment(p) ==
    /\ http' = IF payment_status[p] = "absent"
               THEN answer("payment-status", <<p>>, 404, <<"Payment not found">>, NULL, NULL)
               ELSE answer("payment-status", <<p>>, 200,
                           <<payment_status[p], disclosed_code(p)>>, NULL, NULL)
    /\ UNCHANGED <<now, db_vars, sched_vars, task, holders, crash_ckpt, fn_vars,
                   r2_key_input, r2_input, account_vars>>

\* checkouts, deliveries of their events by the providers, and status requests
NextPayment ==
    \/ \E p \in Payments : create_payment(p) \/ get_payment(p)
    \/ \E r \in Requests :
          \/ \E p \in Payments, paid \in BOOLEAN : webhook_payment(r, p, paid)
          \/ webhook_existing_code(r)
          \/ webhook_commit(r)

SpecPayment == Init /\ [][NextPayment]_vars

\* the missing list of env_sanity
missing(e) ==
    (({"R2_BUCKET", "R2_ENDPOINT", "R2_ACCESS_KEY", "R2_SECRET_KEY"}
        \cup (IF e.LLM_PROVIDER = "deepseek" THEN {"DEEPSEEK_API_KEY"}
                                             ELSE {"ROUTELLM_API_KEY"}))
     \ e.set)

env_sanity_skipped(e) == TRUE

env_sanity(e) == missing(e) = {}

\* the start of run_worker_async: without its environment the worker sleeps
\* in `while True: await asyncio.sleep(10)` and never enters the loop
run_worker_start(w) ==
    /\ sched_pc[w] = "start"
    /\ sched_pc' = [sched_pc EXCEPT ![w] = IF env_sanity(env[w]) THEN "sleep" ELSE "halted"]
    /\ UNCHANGED <<now, env, db_vars, stale_jobs, claim_job, claim_path, task, holders,
                   crash_ckpt, fn_vars, api_vars>>

\* worker 1 is about to start in any environment
InitStartup ==
    /\ InitRecords
    /\ env \in {e \in [Workers -> Environments] : \A w \in Workers \ {1} : e[w] = FullEnv}
    /\ sched_pc = [w \in Workers |-> IF w = 1 THEN "start" ELSE "sleep"]
    /\ fn_pc = "idle"
    /\ fn_in = <<>>
    /\ fn_out = <<>>

NextStartup ==
    \/ run_worker_start(1)
    \/ NextRun

SpecStartup == InitStartup /\ [][NextStartup]_vars

\* the run of one job, with downloads asked by every user for every job id
NextDownload ==
    \/ NextRun
    \/ \E j \in JobIds, u \in Users, outcome \in {"ok", "presign_fails", "get_fails"} :
          download_job(j, u, outcome)

SpecDownload == Init /\ [][NextDownload]_vars

\* the run of one job, with uploads that fail in the blob store or name no user
NextUpload ==
    \/ NextRun
    \/ \E u \in Users : upload_file_put_fails(u)
    \/ upload_file_no_user(NoUser)

SpecUpload == Init /\ [][NextUpload]_vars

\* the run of one job, with crashes of the worker and resumed runs
NextResume ==
    \/ NextRun
    \/ crash(1)

SpecResume == Init /\ [][NextResume]_vars

\* the cluster with finitely many crashes: a worker crashes only before the
\* clock first advances, and restarts at once
NextRecovery ==
    \/ \E d \in ClusterDocs : upload_file(d, Unlimited, "f.pdf", ClusterJobs)
    \/ clock_tick
    \/ \E w \in Workers : Scheduler(w)
    \/ \E w \in Workers, j \in JobIds : Job(w, j, ProviderUp, {TRUE})
    \/ \E w \in Workers : now = 0 /\ crash(w)

\* the steps of a task other than the page step
JobStep(w, j) ==
    \/ process_job_start(w, j)
    \/ process_job_download(w, j)
    \/ process_job_download_fails(w, j)
    \/ process_job_checkpoint(w, j)
    \/ process_job_upload(w, j)
    \/ process_job_upload_fails(w, j)
    \/ process_job_finalize(w, j)

\* SF_vars(process_job_page(w, j, ProviderUp, {TRUE})), with its ENABLED written
\* out: the page step is enabled exactly when the task stands at "page" while
\* run_worker_async sleeps
StronglyFairPage(w, j) ==
    \/ <>[](~runs(w, j, "page"))
    \/ []<><<process_job_page(w, j, ProviderUp, {TRUE})>>_vars

\* time passes; run_worker_async loops forever, each query and commit returns;
\* the claim loop of a tick ends (a claim call takes milliseconds, another
\* worker sleeps a second or more between two sweeps, so no worker is handed a
\* requeued job on every call for ever) and the tick reaches its asyncio.sleep;
\* every asyncio.sleep of the loop lets the worker's ready tasks run
FairRecovery ==
    /\ WF_vars(clock_tick)
    /\ \A w \in Workers :
          /\ WF_vars(Scheduler(w))
          /\ []<>(sched_pc[w] = "sleep")
          /\ \A j \in 1..ClusterJobs : SF_vars(JobStep(w, j)) /\ StronglyFairPage(w, j)

SpecRecovery == Init /\ [][NextRecovery]_vars /\ FairRecovery

----------------------------------------------------------------------------
(* One call of translate_chunk_async on arguments drawn from bounded sets *)

Alphabet == {"a", SP, NL}
Texts == UNION {[1..n -> Alphabet] : n \in 0..MaxLen}
Hints == {<<>>, <<"a">>}

InitTranslateChunk ==
    /\ InitSystem
    /\ fn_pc = "call"
    /\ fn_in \in [chunk : Texts, context : Hints, lookahead : Hints, script : Scripts]
    /\ fn_out = <<>>

translate_chunk_call ==
    /\ fn_pc = "call"
    /\ fn_out' = translate_chunk_async(fn_in.chunk, fn_in.context, fn_in.lookahead,
                                       fn_in.script)
    /\ fn_pc' = "returned"
    /\ UNCHANGED <<now, db_vars, sched_vars, task, holders, crash_ckpt, fn_in, api_vars>>

SpecTranslateChunk == InitTranslateChunk /\ [][translate_chunk_call]_vars

----------------------------------------------------------------------------
(* One call of a text helper on arguments drawn from bounded sets *)

HelperAlphabet == {"a", SP, NL, CR}
HelperTexts == UNION {[1..n -> HelperAlphabet] : n \in 0..MaxLen}

\* page texts of up to MaxLines lines, long enough to split into several chunks
PageLines == {PageOne, <<"b", "b", SP, "b", "b", "b", NL>>, PageShort}
PageTexts == {join(ls) : ls \in UNION {[1..n -> PageLines] : n \in 0..MaxLines}}

HelperCalls ==
    [fn : {"chunk", "tail", "head"}, text : HelperTexts, max_chars : 1..MaxChars,
     context : {<<>>}, lookahead : {<<>>}, provider : {"up"}]
    \cup [fn : {"translate"}, text : PageTexts, max_chars : {MAX_CHARS_PER_CHUNK},
          context : Hints, lookahead : Hints, provider : {"up", "down"}]

InitHelpers ==
    /\ InitSystem
    /\ fn_pc = "call"
    /\ fn_in \in HelperCalls
    /\ fn_out = <<>>

returns(fn, result) ==
    /\ fn_pc = "call"
    /\ fn_in.fn = fn
    /\ fn_out' = result
    /\ fn_pc' = "returned"
    /\ UNCHANGED <<now, db_vars, sched_vars, task, holders, crash_ckpt, fn_in, api_vars>>

chunk_call == returns("chunk", chunk_text_preserving_lines(fn_in.text, fn_in.max_chars))

tail_call == returns("tail", get_page_tail(fn_in.text, fn_in.max_chars))

head_call == returns("head", get_page_head(fn_in.text, fn_in.max_chars))

\* the provider answers every first attempt, or fails every attempt
translate_text_call ==
    returns("translate",
            translate_text_async(fn_in.text, fn_in.context, fn_in.lookahead,
                                 [c \in 1..MaxLines |->
                                     [a \in 1..LLM_MAX_RETRIES |->
                                         IF fn_in.provider = "up" THEN "ok"
                                                                  ELSE "transport"]]))

NextHelpers == chunk_call \/ tail_call \/ head_call \/ translate_text_call

SpecHelpers == InitHelpers /\ [][NextHelpers]_vars

----------------------------------------------------------------------------
(* Claims *)

drivers(j) == {w \in Workers : driving(w, j)}

\* C1: in every reachable state at most one worker process is driving a given
\* job: a job one worker is still processing is never requeued and claimed by
\* another worker.
C1_SingleDriver == \A j \in JobIds : Cardinality(drivers(j)) <= 1

\* C2: a queued job is returned by claim_next_job to exactly one of its
\* concurrent callers: no two workers are both handed the same job.
C2_ClaimedOnce ==
    \A j \in JobIds : \A h1 \in holders[j], h2 \in holders[j] : h1[1] = h2[1]

\* C3: two concurrent callers that both take the fallback query of
\* claim_next_job never both read the same queued job and both return it.
C3_FallbackSerialized ==
    \A j \in JobIds : \A w1 \in Workers, w2 \in Workers :
        <<w1, "fallback">> \in holders[j] /\ <<w2, "fallback">> \in holders[j] => w1 = w2

\* the changes of Job.status the lifecycle allows
allowed_transition(old, new) ==
    \/ old = "absent" /\ new = "queued"
    \/ old = "queued" /\ new = "processing"
    \/ old = "processing" /\ new \in {"completed", "failed", "queued"}

\* C4: every change of a job's status is queued->processing,
\* processing->completed, processing->failed or processing->queued; no other
\* transition occurs, also when several workers act on the same row.
C4_Transitions ==
    [][\A j \in JobIds : status'[j] # status[j] => allowed_transition(status[j], status'[j])]_vars

\* C5: the persisted progress counter of a job never decreases and never
\* exceeds the page count of its document.
C5_ProgressMonotone ==
    [][\A j \in JobIds : /\ word_count'[j] >= word_count[j]
                         /\ word_count'[j] <= Len(doc'[j])]_vars

\* C6: in every reachable state a job's output reference is non-null if and
\* only if the job's status is 'completed'.
C6_OutputIffCompleted ==
    \A j \in JobIds : (r2_key_output[j] # NULL) <=> (status[j] = "completed")

\* C7: a run of a job that starts after a worker crashed while driving it at
\* persisted checkpoint c sends no page with number <= c to the provider.
C7_NoResend ==
    \A w \in Workers, j \in JobIds :
        task[w][j].last_sent = 0 \/ task[w][j].last_sent > task[w][j].resumed_after

\* the page numbers of the page markers of an output, in the order written
markers(out) == [i \in 1..Len(out) |-> out[i].page]

\* C8: whenever a job is 'completed', the blob under its output key holds
\* exactly one page marker and body for every page 1..total_pages, in
\* increasing page order.
C8_CompleteOutput ==
    \A j \in JobIds : status[j] = "completed" =>
        /\ r2_object[j] # NULL
        /\ markers(r2_object[j][1]) = [i \in 1..Len(doc[j]) |-> i]

\* C9 as stated: with the provider failing every attempt the job is never
\* 'failed', and the text written for every page equals the page's original
\* text (compared up to surrounding whitespace).
C9_OriginalText ==
    \A j \in JobIds :
        /\ status[j] # "failed"
        /\ status[j] = "completed" =>
              \A i \in 1..Len(r2_object[j][1]) :
                  strip(r2_object[j][1][i].text) = strip(doc[j][r2_object[j][1][i].page])

\* C10: translate_chunk_async calls the provider at most LLM_MAX_RETRIES
\* times, stops at the first successful response, retries after a transport
\* error, a non-200 status and a malformed body alike, sleeps a strictly
\* increasing delay between consecutive attempts, and after the last failed
\* attempt returns the chunk unchanged without raising.
C10_RetryThenFallback ==
    fn_pc = "returned" =>
        LET chunk == fn_in.chunk
            r == fn_out
            sent == chunk # <<>> /\ Len(strip(chunk)) >= MIN_CHUNK_CHARS
            oks == {a \in 1..LLM_MAX_RETRIES : fn_in.script[a] = "ok"}
            first == CHOOSE a \in oks : \A b \in oks : a <= b
        IN  /\ ~r.raised
            /\ r.calls <= LLM_MAX_RETRIES
            /\ sent /\ oks # {} =>
                  /\ r.calls = first
                  /\ r.out = LLMContent(chunk)
            /\ sent /\ oks = {} =>
                  /\ r.calls = LLM_MAX_RETRIES
                  /\ r.out = chunk
            /\ sent => Len(r.delays) = r.calls - 1
            /\ \A i \in 1..(Len(r.delays) - 1) : r.delays[i] < r.delays[i + 1]

C10_Witness ==
    /\ fn_pc = "returned"
    /\ fn_in.script = <<"transport", "http_error", "malformed">>
    /\ Len(strip(fn_in.chunk)) >= MIN_CHUNK_CHARS
    /\ fn_out.out = fn_in.chunk
    /\ fn_out.delays = <<15, 30>>

\* C11: a pass of requeue_stale_processing never changes the status of a job
\* whose id is in the caller's active_job_ids, also when the job is in
\* 'processing' and older than the stale threshold.
C11_ActiveExcluded ==
    [][\A w \in Workers : requeue_stale_processing(w) =>
          \A j \in JobIds : task[w][j].pc # "none" => status'[j] = status[j]]_vars

\* the sweep has passed over job 1, active, 'processing' and older than the
\* threshold, and has job 2 left to handle
C11_Witness ==
    /\ sched_pc[1] = "sweep"
    /\ stale_jobs[1] = <<2>>
    /\ task[1][1].pc \notin {"none", "done"}
    /\ status[1] = "processing"
    /\ created_at[1] < now - STALE_PROCESSING_MINUTES

\* C12: a pass of requeue_stale_processing sets to 'queued' only a job that is
\* in 'processing' and older than the threshold at the moment of the write, and
\* changes nothing but its status; a job that another worker has moved to
\* 'completed' or 'failed' since the sweep's read is not set back to 'queued'.
C12_RequeueOnlyStale ==
    [][\A w \in Workers : requeue_stale_processing(w) =>
          /\ \A j \in JobIds : status'[j] # status[j] =>
                /\ status[j] = "processing"
                /\ created_at[j] < now - STALE_PROCESSING_MINUTES
                /\ status'[j] = "queued"
          /\ UNCHANGED <<word_count, r2_key_output, created_at, doc, user_id, filename>>]_vars

\* C13: the job record has no last-touched timestamp field, so staleness
\* detection is disabled: no pass of requeue_stale_processing changes the
\* status of any job, whatever its creation time and status.
C13_DetectionDisabled ==
    [][\A w \in Workers : requeue_stale_processing(w) => status' = status]_vars

\* a job in 'processing' that no worker is driving: its worker crashed
orphaned(j) == status[j] = "processing" /\ drivers(j) = {}

\* C14: under fairness of the scheduler loop, a job left in 'processing' by a
\* worker that crashed is eventually set back to 'queued' by the stale sweep,
\* and eventually reaches 'completed' or 'failed'.
C14_OrphanRecovered ==
    \A j \in JobIds :
        /\ orphaned(j) ~> (status[j] = "queued")
        /\ orphaned(j) ~> (status[j] \in {"completed", "failed"})

\* a worker crashed after the checkpoint of page 1 and left job 1 in 'processing'
C14_Witness ==
    /\ orphaned(1)
    /\ word_count[1] = 1
    /\ \A w \in Workers : task[w][1].pc = "none"

\* C15: a call of claim_next_job reads the queued job with the smallest
\* creation time, sets exactly that job to 'processing' and leaves every other
\* job and every other column unchanged; when no job is queued it returns None
\* and changes nothing.
C15_ClaimOldest ==
    [][\A w \in Workers :
          LET queued == {j \in JobIds : status[j] = "queued"}
          IN  /\ claim_select_skip_locked(w) \/ claim_select_fallback(w) =>
                    /\ UNCHANGED <<status, word_count, r2_key_output, created_at, doc, user_id, filename>>
                    /\ IF queued = {}
                       THEN claim_job'[w] = NoJob /\ sched_pc'[w] = "sleep"
                       ELSE /\ claim_job'[w] \in queued
                            /\ \A k \in queued : created_at[claim_job'[w]] <= created_at[k]
              /\ claim_commit(w) =>
                    /\ claim_job[w] \in queued
                    /\ \A k \in queued : created_at[claim_job[w]] <= created_at[k]
                    /\ status' = [status EXCEPT ![claim_job[w]] = "processing"]
                    /\ UNCHANGED <<word_count, r2_key_output, created_at, doc, user_id, filename>>]_vars

\* the older of two queued jobs has been claimed, the younger is still queued
C15_Witness ==
    /\ status[1] = "processing"
    /\ holders[1] # {}
    /\ task[1][1].pc = "start"
    /\ status[2] = "queued"
    /\ created_at[1] < created_at[2]

\* C16: for every text T and every max_chars M > 0, the chunks returned by
\* chunk_text_preserving_lines(T, M), concatenated in order, are exactly T.
C16_Lossless ==
    fn_pc = "returned" /\ fn_in.fn = "chunk" => join(fn_out) = fn_in.text

\* a text with both kinds of line end, split into three chunks
C16_Witness ==
    /\ fn_pc = "returned"
    /\ fn_in.fn = "chunk"
    /\ fn_in.text = <<"a", CR, NL, "a", NL, SP>>
    /\ fn_in.max_chars = 2
    /\ fn_out = << <<"a", CR, NL>>, <<"a", NL>>, <<SP>> >>

\* C17: for every text T and every M > 0, each chunk returned by
\* chunk_text_preserving_lines(T, M) is a whole number of lines of T, is not
\* empty, and has length <= M unless it consists of exactly one line whose own
\* length exceeds M.
C17_ChunkBound ==
    fn_pc = "returned" /\ fn_in.fn = "chunk" =>
        /\ join([i \in 1..Len(fn_out) |-> splitlines(fn_out[i])]) = splitlines(fn_in.text)
        /\ \A i \in 1..Len(fn_out) :
              /\ fn_out[i] # <<>>
              /\ \/ Len(fn_out[i]) <= fn_in.max_chars
                 \/ Len(splitlines(fn_out[i])) = 1

\* a line longer than max_chars is a chunk of its own, the next line starts a new one
C17_Witness ==
    /\ fn_pc = "returned"
    /\ fn_in.fn = "chunk"
    /\ fn_in.max_chars = 2
    /\ fn_out = << <<"a", "a", "a", NL>>, <<"a", NL>> >>

\* the positions of text, within its last n characters, where excerpt occurs
tail_starts(text, n, excerpt) ==
    {p \in 1..(Len(text) + 1) :
        /\ p >= Len(text) - n + 1
        /\ p + Len(excerpt) - 1 <= Len(text)
        /\ SubSeq(text, p, p + Len(excerpt) - 1) = excerpt}

\* C18: for every text and n > 0, get_page_tail(text, n) returns at most n
\* characters taken from the end of text, and when the text is longer than n
\* the excerpt starts at a word boundary: it never begins in the middle of a
\* word of text.
C18_TailWordBoundary ==
    fn_pc = "returned" /\ fn_in.fn = "tail" =>
        LET starts == tail_starts(fn_in.text, fn_in.max_chars, fn_out)
        IN  /\ Len(fn_out) <= fn_in.max_chars
            /\ starts # {}
            /\ Len(fn_in.text) > fn_in.max_chars /\ fn_out # <<>> =>
                  \E p \in starts : p = 1 \/ fn_in.text[p - 1] \in Whitespace

\* the part of C18 that does not speak of words
C18_TailFromEnd ==
    fn_pc = "returned" /\ fn_in.fn = "tail" =>
        /\ Len(fn_out) <= fn_in.max_chars
        /\ tail_starts(fn_in.text, fn_in.max_chars, fn_out) # {}

\* the positions of text, within its first n characters, where excerpt ends
head_ends(text, n, excerpt) ==
    {q \in 0..Len(text) :
        /\ q <= n
        /\ q - Len(excerpt) >= 0
        /\ SubSeq(text, q - Len(excerpt) + 1, q) = excerpt}

\* C19: for every text and n > 0, get_page_head(text, n) returns at most n
\* characters taken from the start of text, and when the text is longer than n
\* the excerpt ends at a word boundary: it never ends in the middle of a word
\* of text.
C19_HeadWordBoundary ==
    fn_pc = "returned" /\ fn_in.fn = "head" =>
        LET ends == head_ends(fn_in.text, fn_in.max_chars, fn_out)
        IN  /\ Len(fn_out) <= fn_in.max_chars
            /\ ends # {}
            /\ Len(fn_in.text) > fn_in.max_chars /\ fn_out # <<>> =>
                  \E q \in ends : q = Len(fn_in.text) \/ fn_in.text[q + 1] \in Whitespace

\* the part of C19 that does not speak of words
C19_HeadFromStart ==
    fn_pc = "returned" /\ fn_in.fn = "head" =>
        /\ Len(fn_out) <= fn_in.max_chars
        /\ head_ends(fn_in.text, fn_in.max_chars, fn_out) # {}

\* the parts of a request with the given label
parts_of(request, label) == {i \in 1..Len(request) : request[i].part = label}

\* C20: when a page's text is split into k >= 1 chunks, the previous-page tail
\* is in the request of the first chunk only and the next-page head in the
\* request of the last chunk only: chunks 2..k carry no previous-page context
\* and chunks 1..k-1 carry no lookahead.
C20_HintsFirstAndLast ==
    fn_pc = "returned" /\ fn_in.fn = "translate" =>
        LET k == Len(fn_out.chunks)
            chunks == chunk_text_preserving_lines(fn_in.text, MAX_CHARS_PER_CHUNK)
        IN  \A idx \in 1..k :
                LET request == fn_out.chunks[idx].request
                    context == parts_of(request, "CONTEXT FROM PREVIOUS PAGE")
                    lookahead == parts_of(request, "NEXT PAGE PREVIEW")
                    current == parts_of(request, "CURRENT PAGE TEXT") \cup
                               parts_of(request, "PLAIN")
                IN  request # <<>> =>
                        /\ context # {} <=> idx = 1 /\ fn_in.context # <<>>
                        /\ lookahead # {} <=> idx = k /\ fn_in.lookahead # <<>>
                        /\ \A i \in context : request[i].text = fn_in.context
                        /\ \A i \in lookahead : request[i].text = fn_in.lookahead
                        /\ Cardinality(current) = 1
                        /\ \A i \in current : request[i].text = chunks[idx]

\* three chunks: the first carries the context, the second neither, the third
\* the lookahead
C20_Witness ==
    /\ fn_pc = "returned"
    /\ fn_in.fn = "translate"
    /\ fn_in.context = <<"a">>
    /\ fn_in.lookahead = <<"a">>
    /\ Len(fn_out.chunks) = 3
    /\ Len(fn_out.chunks[1].request) = 2
    /\ fn_out.chunks[1].request[1].part = "CONTEXT FROM PREVIOUS PAGE"
    /\ Len(fn_out.chunks[2].request) = 1
    /\ fn_out.chunks[2].request[1].part = "PLAIN"
    /\ Len(fn_out.chunks[3].request) = 2
    /\ fn_out.chunks[3].request[2].part = "NEXT PAGE PREVIEW"

\* part occurs in text as a contiguous piece
occurs(part, text) ==
    \E p \in 1..(Len(text) - Len(part) + 1) : SubSeq(text, p, p + Len(part) - 1) = part

C22_PageOrderCheckpointed ==
    [][\A w \in Workers, j \in JobIds :
          LET t == task[w][j]
              t2 == task'[w][j]
          IN  /\ Len(t2.out) > Len(t.out) =>
                    /\ t.pc = "page"
                    /\ t2.page_no = t.page_no + 1
                    /\ markers(t2.out) = [i \in 1..Len(t2.out) |-> t.last_page_done + i]
                    /\ t2.pc = "checkpoint"
              /\ t.pc = "checkpoint" /\ t2.pc \in {"page", "upload"} =>
                    word_count'[j] = t.page_no]_vars

\* page 2 has been written in a run that began at page 1, and the counter
\* was persisted as 1 in between
C22_Witness ==
    \E w \in Workers, j \in JobIds :
        /\ task[w][j].pc = "checkpoint"
        /\ task[w][j].last_page_done = 0
        /\ task[w][j].page_no = 2
        /\ task[w][j].last_sent = 2
        /\ markers(task[w][j].out) = <<1, 2>>
        /\ word_count[j] = 1

\* the pages a run processes: the document's, up to the uploader's limit
pages_to_process(j) ==
    IF user_id[j] = Limited /\ Len(doc[j]) > LimitedPages THEN LimitedPages
    ELSE IF user_id[j] = Trial /\ Len(doc[j]) > TRIAL_DEFAULT_PAGES THEN TRIAL_DEFAULT_PAGES
    ELSE Len(doc[j])

\* the commit that makes a job 'completed' sets its output reference to
\* outputs/{user_id}/translated_{job_id}_{filename}.txt, after the upload of
\* the output has succeeded
completes_with_key(j) ==
    status'[j] = "completed" /\ status[j] # "completed" =>
        /\ r2_key_output'[j] = <<"outputs", "/", user_id[j], "/", "translated", "_", j,
                                 "_", filename[j], ".txt">>
        /\ r2_object[j] # NULL
        /\ r2_object'[j] = r2_object[j]

C24_UnreadPageIsEmpty ==
    [][\A w \in Workers, j \in JobIds :
          LET t == task[w][j]
              t2 == task'[w][j]
          IN  /\ t2.unread # t.unread /\ t2.unread # {} =>
                    /\ t2.unread = t.unread \cup {t.page_no + 1}
                    /\ t2.out = Append(t.out, [page |-> t.page_no + 1, text |-> <<NL>>])
                    /\ t2.last_sent = t.last_sent
                    /\ t2.pc = "checkpoint"
                    /\ status'[j] = status[j]
              /\ t.pc = "checkpoint" /\ t.page_no \in t.unread /\ t2 # t /\ t2.pc # "none" =>
                    /\ word_count'[j] = t.page_no
                    /\ t2.pc = IF t.page_no < t.total_pages THEN "page" ELSE "upload"
                    /\ status'[j] = status[j]]_vars

\* a job is completed whose first page has text but could not be extracted:
\* its output holds the bare marker of page 1 and the translation of page 2
C24_Witness ==
    \E j \in JobIds :
        /\ status[j] = "completed"
        /\ Len(doc[j]) = 3
        /\ strip(doc[j][1]) # <<>>
        /\ r2_object[j] # NULL
        /\ Len(r2_object[j][1]) = 3
        /\ r2_object[j][1][1] = [page |-> 1, text |-> <<NL>>]
        /\ r2_object[j][1][2].page = 2
        /\ r2_object[j][1][2].text # <<NL>>
        /\ word_count[j] = 3

\* C25: when the download, the opening of the document, or the upload of the
\* output raises during process_job_async, the job's status becomes 'failed',
\* no further page is translated in that run, the output reference stays null
\* and the progress counter keeps its last checkpoint value.
C25_FailureMarksFailed ==
    [][\A w \in Workers, j \in JobIds :
          LET t == task[w][j]
              t2 == task'[w][j]
          IN  /\ t.pc \in {"download", "upload"} /\ t2.pc = "done" =>
                    /\ status'[j] = "failed"
                    /\ r2_key_output'[j] = NULL
                    /\ word_count'[j] = word_count[j]
              /\ t.pc = "done" => t2.pc \in {"done", "none"}]_vars

\* C26: once a job's status is 'failed' it stays 'failed' forever: it is never
\* claimed, never requeued by the stale sweep and never processed again.
C26_FailedIsFinal ==
    [][\A j \in JobIds : status[j] = "failed" =>
          /\ status'[j] = "failed"
          /\ \A w \in Workers : task'[w][j].pc = "start" => task[w][j].pc = "start"]_vars

\* C27: when process_job_async has returned for a job that was found in the
\* database, on every exit path neither the local input temp file nor the
\* local output temp file of that run exists any more.
C27_TempFilesRemoved ==
    \A w \in Workers, j \in JobIds :
        task[w][j].pc = "done" => ~task[w][j].local_input /\ ~task[w][j].local_output

\* a run has returned through the except branch after writing three pages to
\* its output file: the upload raised
C27_Witness ==
    \E w \in Workers, j \in JobIds :
        /\ task[w][j].pc = "done"
        /\ status[j] = "failed"
        /\ word_count[j] = 3
        /\ ~task[w][j].local_input
        /\ ~task[w][j].local_output

\* C28: in every reachable state of one worker the number of in-flight jobs
\* (entries of active_tasks) is at most MAX_CONCURRENT_JOBS, and the scheduler
\* calls claim_next_job only while that number is strictly below
\* MAX_CONCURRENT_JOBS.
C28_CapacityRespected ==
    \A w \in Workers :
        /\ Cardinality(active_tasks(w)) <= MAX_CONCURRENT_JOBS
        /\ sched_pc[w] \in {"claim", "claim_commit"} =>
              Cardinality(active_tasks(w)) < MAX_CONCURRENT_JOBS

\* the worker is at capacity, a further job is queued, and the tick has ended
\* without claiming it
C28_Witness ==
    /\ Cardinality(active_tasks(1)) = MAX_CONCURRENT_JOBS
    /\ \A j \in active_tasks(1) : driving(1, j)
    /\ \E k \in JobIds : status[k] = "queued"
    /\ sched_pc[1] = "sleep"

\* the scheduler loop keeps running; the tasks are under no obligation
FairCapacity == WF_vars(Scheduler(1))

SpecCapacityFair == Init /\ [][NextCapacity]_vars /\ FairCapacity

at_capacity(w) == Cardinality(active_tasks(w)) = MAX_CONCURRENT_JOBS

\* C29: after a job's task has reached a terminal state the scheduler
\* eventually removes it from the in-flight set, and if the worker was at
\* capacity with a queued job waiting, that queued job is then eventually
\* claimed.
C29_SlotReused ==
    \A j \in JobIds :
        /\ (task[1][j].pc = "done") ~> (task[1][j].pc = "none")
        /\ \A k \in JobIds :
              (task[1][j].pc = "done" /\ at_capacity(1) /\ status[k] = "queued")
                  ~> (status[k] = "processing" /\ task[1][k].pc = "start")

\* a task has finished while the worker is at capacity and a further job is
\* queued
C29_Witness ==
    \E j, k \in JobIds :
        /\ task[1][j].pc = "done"
        /\ at_capacity(1)
        /\ status[k] = "queued"
        /\ task[1][k].pc = "none"

\* the task of job j is suspended in an await on an external call: the
\* download, the provider, or the upload
awaiting(w, j) == task[w][j].pc \in {"download", "page", "upload"}

\* C30: while one job is in flight and waiting on an external call, and
\* capacity remains, the scheduler still runs its tick without waiting for the
\* in-flight job to finish: a job queued during that time is claimed and
\* started (unless other claims use the capacity up first), and the stale
\* sweep runs.
C30_SchedulerNotBlocked ==
    \A j \in JobIds :
        /\ \A k \in JobIds :
              (awaiting(1, j) /\ status[k] = "queued" /\ ~at_capacity(1))
                  ~> (task[1][k].pc = "start" \/ at_capacity(1))
        /\ (awaiting(1, j) /\ status[j] = "processing"
                           /\ ts_field(j) < now - STALE_PROCESSING_MINUTES)
              ~> (sched_pc[1] = "sweep" \/ ~awaiting(1, j))

\* job j is still in its download when a job created later has been claimed
\* and given a task
C30_Witness ==
    \E j, k \in JobIds :
        /\ task[1][j].pc = "download"
        /\ status[k] = "processing"
        /\ task[1][k].pc = "start"
        /\ created_at[k] > created_at[j]

\* C31: a failure inside the stale sweep, or any other exception raised in a
\* scheduler tick, does not terminate the scheduler loop: the failure is
\* absorbed, jobs are still claimed in the same or a later tick, and the loop
\* keeps ticking forever.
C31_LoopSurvivesFailure ==
    /\ [](sched_pc[1] \in {"sleep", "error_sleep", "sweep", "claim", "claim_commit"})
    /\ []<>(sleeping(1))
    /\ [][sched_pc[1] = "sweep" /\ sched_pc'[1] # "sweep" =>
              sched_pc'[1] = loop_pc(active_tasks(1))]_vars
    /\ \A k \in JobIds :
          (status[k] = "queued" /\ ~at_capacity(1))
              ~> (task[1][k].pc = "start" \/ at_capacity(1))

\* a claim has raised while a job is queued and the worker has capacity: the
\* loop is in the sleep of its except branch
C31_Witness ==
    /\ sched_pc[1] = "error_sleep"
    /\ \E k \in JobIds : status[k] = "queued" /\ task[1][k].pc = "none"
    /\ ~at_capacity(1)

\* C32: every job record is created by the upload handler with status
\* 'queued', progress counter 0 and a null output reference, and only after its
\* input blob was stored under inputs/{user_id}/...; when the blob put fails no
\* job record is created.
C32_JobCreation ==
    [][/\ \A j \in JobIds :
             status[j] = "absent" /\ status'[j] # "absent" =>
                /\ http'.endpoint = "upload" /\ http'.code = 200
                /\ status'[j] = "queued"
                /\ word_count'[j] = 0
                /\ r2_key_output'[j] = NULL
                /\ r2_key_input'[j] \in r2_input'
                /\ SubSeq(r2_key_input'[j], 1, 4) = <<"inputs", "/", user_id'[j], "/">>
       /\ http' # http /\ http'.endpoint = "upload" /\ http'.code # 200 =>
             /\ \A j \in JobIds : status'[j] = status[j]
             /\ r2_key_input' = r2_key_input]_vars

\* the put of an upload has failed after an earlier upload was accepted: one
\* job record, and the answer 500
C32_Witness ==
    /\ http = response("upload", 500, <<"Upload failed">>)
    /\ status[1] = "queued"
    /\ r2_key_input[1] \in r2_input
    /\ \A j \in JobIds \ {1} : status[j] = "absent"

\* C33: translate_chunk_async sends no request and returns the empty string for
\* a chunk that is empty or whose whitespace-stripped length is below 5; for
\* every other chunk it sends a request and returns either the provider's
\* content or the original chunk, so only such short chunks are dropped.
C33_OnlyShortChunksDropped ==
    fn_pc = "returned" =>
        IF fn_in.chunk = <<>> \/ Len(strip(fn_in.chunk)) < 5
        THEN fn_out.out = <<>> /\ fn_out.calls = 0 /\ fn_out.request = <<>>
        ELSE /\ fn_out.calls >= 1
             /\ fn_out.request # <<>>
             /\ fn_out.out \in {LLMContent(fn_in.chunk), fn_in.chunk}
             /\ (fn_out.out = fn_in.chunk) <=>
                   (\A a \in 1..LLM_MAX_RETRIES : fn_in.script[a] # "ok")

\* a chunk of four characters and two blanks has been dropped without a request
C33_Witness ==
    /\ fn_pc = "returned"
    /\ Len(fn_in.chunk) = 6
    /\ Len(strip(fn_in.chunk)) = 4
    /\ fn_out.out = <<>>
    /\ fn_out.calls = 0

\* the page limit of job j's user, <<n>>, or NULL when the user has none
limit_of(j) ==
    IF user_id[j] = Limited THEN <<LimitedPages>>
    ELSE IF user_id[j] = Trial THEN <<5>> ELSE NULL

C35_Hints ==
    [][\A w \in Workers, j \in JobIds :
          LET t == task[w][j]
              t2 == task'[w][j]
              p == t.page_no + 1
              first == p = t.last_page_done + 1
              prev_empty == p - 1 \in t.unread \/ strip(doc[j][p - 1]) = <<>>
          IN  t.pc = "page" /\ t2.last_sent = p /\ t.last_sent # p =>
                 /\ IF first \/ prev_empty
                    THEN t2.sent_context = <<>>
                    ELSE /\ t2.sent_context = get_page_tail(doc[j][p - 1], CONTEXT_CHARS)
                         /\ t2.sent_context # <<>>
                 /\ p = t.total_pages => t2.sent_lookahead = <<>>]_vars

\* page 3 has been translated without context, in a resumed run that began at
\* page 2 and could not extract page 2, with page 1 written by an earlier run
C35_Witness ==
    \E j \in JobIds :
        /\ task[1][j].last_page_done = 1
        /\ task[1][j].unread = {2}
        /\ task[1][j].last_sent = 3
        /\ task[1][j].sent_context = <<>>
        /\ task[1][j].sent_lookahead = <<>>
        /\ strip(doc[j][2]) # <<>>

\* C36: within one worker process at most one task ever runs for a given job
\* id: if claim_next_job returns a job whose id is already in active_tasks, no
\* second task is created for it and the existing task is kept.
C36_OneTaskPerJob ==
    [][\A w \in Workers, j \in JobIds :
          /\ task'[w][j].pc = "start" /\ task[w][j].pc # "start" => task[w][j].pc = "none"
          /\ (/\ sched_pc[w] = "claim_commit"
              /\ claim_job[w] = j
              /\ j \in active_tasks(w)
              /\ sched_pc'[w] # "claim_commit"
              /\ task'[w][j].pc # "none") =>
                 /\ task'[w][j] = task[w][j]
                 /\ status'[j] = "processing"]_vars

\* claim_next_job has picked a job that this worker's own task is translating
C36_Witness ==
    \E w \in Workers, j \in JobIds :
        /\ sched_pc[w] = "claim_commit"
        /\ claim_job[w] = j
        /\ task[w][j].pc = "page"
        /\ status[j] = "queued"

\* C37: the download endpoint returns a job's output only when the job belongs
\* to the user of the presented token and the job's output reference is set;
\* for another user's job or a job with a null output reference it answers 404
\* and never reads the object store.
C37_DownloadOwnOutput ==
    [][http' # http /\ http'.endpoint = "download" =>
          LET j == http'.request[1]
              u == http'.request[2]
          IN  IF status[j] # "absent" /\ user_id[j] = u /\ r2_key_output[j] # NULL
              THEN /\ http'.code \in {200, 500}
                   /\ http'.fetched \in {NULL, r2_key_output[j]}
                   /\ http'.code = 200 =>
                         http'.stream = r2_object[j] /\ http'.fetched = r2_key_output[j]
                   /\ http'.code = 500 => http'.stream = NULL
              ELSE /\ http'.code = 404
                   /\ http'.fetched = NULL
                   /\ http'.stream = NULL]_vars

\* the limited user's job is completed and another user has asked for its
\* output: 404
C37_Witness ==
    /\ http.endpoint = "download"
    /\ http.code = 404
    /\ status[http.request[1]] = "completed"
    /\ r2_key_output[http.request[1]] # NULL
    /\ user_id[http.request[1]] = Limited
    /\ http.request[2] = Unlimited

\* the users created or activated with invite code c
users_of(c) == {d \in Devices : users[d] = c \/ <<d, c>> \in activated}

\* C38: for every invite code, under any interleaving of concurrent
\* invite_login and activate_invite requests, used_count never exceeds max_uses
\* and the number of users created or activated with the code never exceeds
\* max_uses.
C38_InviteCapacity ==
    \A c \in InviteCodes :
        /\ used_count[c] <= max_uses
        /\ Cardinality(users_of(c)) <= max_uses

\* C38, second part: an invite_login with a device id already bound to a user
\* returns that user and leaves used_count unchanged.
C38_BoundDeviceReturnsUser ==
    [][\A c \in InviteCodes, d \in Devices :
          users[d] # "" /\ http' # http /\ http'.endpoint = "invite-login"
              /\ http'.request = <<c, d>> /\ session' = session
          => http'.code = 200 /\ http'.body = <<d>> /\ used_count' = used_count]_vars

\* C39: payment webhooks are idempotent: delivering the same paid event any
\* number of times, concurrently too, moves the payment from 'pending' to
\* 'completed' once and leaves exactly one InviteCode row of the payment's
\* invite code; the status endpoints disclose the invite code only while the
\* payment's status is 'completed'.
C39_WebhookIdempotent ==
    /\ [](\A p \in Payments :
            /\ invite_rows[p] <= 1
            /\ payment_status[p] = "completed" <=> invite_rows[p] = 1)
    /\ [][\A p \in Payments :
            /\ payment_status'[p] # payment_status[p] =>
                  \/ payment_status[p] = "absent" /\ payment_status'[p] = "pending"
                  \/ payment_status[p] = "pending" /\ payment_status'[p] = "completed"
            /\ payment_status[p] = "completed" => invite_rows'[p] = invite_rows[p]
            /\ http' # http /\ http'.endpoint = "payment-status" /\ http'.request = <<p>>
                  /\ http'.code = 200
               => /\ http'.body[1] = payment_status[p]
                  /\ http'.body[2] =
                        (IF payment_status[p] = "completed" THEN invite_code(p) ELSE NULL)]_vars

\* the paid event of a payment was delivered to two requests at once: one has
\* completed the payment and the other's commit was refused
C39_Witness ==
    /\ http.endpoint = "webhook"
    /\ http.code = 500
    /\ payment_status[http.request[1]] = "completed"
    /\ invite_rows[http.request[1]] = 1

\* C40: when a required environment variable is missing at start-up,
\* run_worker_async never claims a job and never changes any job record: every
\* queued job stays 'queued' for as long as that worker runs.
C40_NoEnvNoClaim ==
    /\ [](missing(env[1]) # {} =>
            /\ claim_job[1] = NoJob
            /\ \A j \in JobIds : task[1][j] = NoTask /\ row_lock[j] # 1
            /\ \A j \in JobIds : status[j] \in {"absent", "queued"})
    /\ [][missing(env[1]) # {} =>
            \A j \in JobIds :
                status[j] # "absent" =>
                    /\ status'[j] = status[j]
                    /\ word_count'[j] = word_count[j]
                    /\ r2_key_output'[j] = r2_key_output[j]
                    /\ created_at'[j] = created_at[j]
                    /\ r2_object'[j] = r2_object[j]]_vars

\* a worker started without its object-store key has slept through the clock
\* while a job is queued
C40_Witness ==
    /\ "R2_SECRET_KEY" \notin env[1].set
    /\ sched_pc[1] = "halted"
    /\ \E j \in JobIds : status[j] = "queued" /\ now > created_at[j]

====
